---------------------------- MODULE Spec2Model ----------------------------
(***************************************************************************)
(* Model of detect_humans.py: the command-line entry point main, the       *)
(* pipeline detect_humans_on_video and the prober get_video_params.        *)
(*                                                                         *)
(* One behaviour is one invocation of main.  The arguments and the files   *)
(* they name are chosen in Init; every statement of the pipeline is one    *)
(* action, in the order of the source.  A statement that calls into cv2 or *)
(* ultralytics and can raise there has a raising branch.                    *)
(***************************************************************************)
EXTENDS Integers, Sequences, FiniteSets

\* Largest number of frames of an input video, and largest frame count a
\* container header reports.
MaxFrames == 2

\* ------------------------------------------------------------------------
\* Names of the errors.  The source raises built-in exceptions; the names
\* are those of the error taxonomy they stand for.
NoError == "none"
InputNotFoundError == "InputNotFoundError"                    \* FileNotFoundError, line 103
UnsupportedOutputFormatError == "UnsupportedOutputFormatError" \* ValueError, line 106
ModelLoadError == "ModelLoadError"                            \* raised inside YOLO(...), line 109
OpenError == "OpenError"                                      \* ValueError, line 59
InferenceError == "InferenceError"                            \* raised by next(results), line 115
RenderError == "RenderError"                                  \* raised by r.plot(...), line 118
WriteError == "WriteError"                                    \* raised by out.write(...), line 122

\* ------------------------------------------------------------------------
\* File names are sequences of characters.
Str_o_avi == << "o", ".", "a", "v", "i" >>
Str_O_AVI == << "O", ".", "A", "V", "I" >>
Str_o_mp4 == << "o", ".", "m", "p", "4" >>
Str_oavi == << "o", "a", "v", "i" >>
Str_o_avi_mp4 == << "o", ".", "a", "v", "i", ".", "m", "p", "4" >>
Str_avi == << "a", "v", "i" >>

\* The output names a caller passes with -o.
OutputNames == { Str_o_avi, Str_O_AVI, Str_o_mp4, Str_oavi, Str_o_avi_mp4, Str_avi }

\* str.lower() on one character.
LowerChar(c) ==
    CASE c = "A" -> "a"
      [] c = "V" -> "v"
      [] c = "I" -> "i"
      [] c = "O" -> "o"
      [] c = "M" -> "m"
      [] c = "P" -> "p"
      [] OTHER -> c

\* str.lower()
Lower(s) == [ k \in 1..Len(s) |-> LowerChar(s[k]) ]

\* str.endswith(suffix)
EndsWith(s, suffix) ==
    /\ Len(suffix) <= Len(s)
    /\ SubSeq(s, Len(s) - Len(suffix) + 1, Len(s)) = suffix

\* The suffix the source compares with, line 105.
DotAvi == << ".", "a", "v", "i" >>

\* ------------------------------------------------------------------------
\* A frame image: the index of the source frame it shows, and whether the
\* boxes and labels have been drawn on it.
NoImage == [ img |-> 0, plotted |-> FALSE ]

\* The DetectionResult the stream yields for source frame k.
Result(k) == [ img |-> k, plotted |-> FALSE ]

\* r.plot(labels=True, probs=True, show=False, font=...)
Plot(res) == [ img |-> res.img, plotted |-> TRUE ]

VARIABLES
    \* the call's arguments and the files they name
    file_exists,        \* os.path.exists(file_path)
    output_filename,    \* the output name
    model_loadable,     \* YOLO(model_path) can load the weights
    video_openable,     \* cv2.VideoCapture(file_path) opens
    frame_count_prop,   \* CAP_PROP_FRAME_COUNT of the container
    nframes,            \* number of frames the stream can decode
    \* the program
    mainpc,             \* position in main
    pc,                 \* position in detect_humans_on_video
    model,              \* the YOLO model is loaded
    results,            \* the lazy result stream has been created
    vid,                \* the prober's VideoCapture handle
    num_frames,         \* get_video_params's second return value, -1 before
    out,                \* the VideoWriter
    outOpens,           \* number of VideoWriter constructions
    releaseCalls,       \* number of out.release() calls
    yielded,            \* the results that the stream has yielded
    r,                  \* the loop variable
    frame,              \* the rendered frame
    written,            \* the frames passed to out.write, in order
    printed,            \* the messages printed
    raised,             \* the exception a statement of the pipeline raised
    err,                \* the exception that left detect_humans_on_video
    exitErr             \* what main ended with

inputs == << file_exists, output_filename, model_loadable, video_openable,
             frame_count_prop, nframes >>

vars == << file_exists, output_filename, model_loadable, video_openable,
           frame_count_prop, nframes, mainpc, pc, model, results, vid,
           num_frames, out, outOpens, releaseCalls, yielded, r, frame,
           written, printed, raised, err, exitErr >>

Init ==
    /\ file_exists \in BOOLEAN
    /\ output_filename \in OutputNames
    /\ model_loadable \in BOOLEAN
    /\ video_openable \in BOOLEAN
    /\ frame_count_prop \in 0..MaxFrames
    /\ nframes \in 0..MaxFrames
    /\ mainpc = "parse_args"
    /\ pc = "START"
    /\ model = FALSE
    /\ results = FALSE
    /\ vid = "none"
    /\ num_frames = -1
    /\ out = "unopened"
    /\ outOpens = 0
    /\ releaseCalls = 0
    /\ yielded = << >>
    /\ r = NoImage
    /\ frame = NoImage
    /\ written = << >>
    /\ printed = << >>
    /\ raised = NoError
    /\ err = NoError
    /\ exitErr = NoError

\* A swallowing handler around the body: the error is dropped and the call
\* returns normally.
Propagate_Swallowed(e) ==
    /\ pc' = "DONE"
    /\ err' = NoError

\* The body of detect_humans_on_video has no try, except, finally or with:
\* an exception raised by any statement leaves the function at once.
Propagate(e) ==
    /\ pc' = "FAILED"
    /\ err' = e

\* raise e, or an exception raised inside a library call
Raise(e) ==
    /\ raised' = e
    /\ Propagate(e)

\* the statement completes without an exception
NoRaise ==
    /\ raised' = raised
    /\ err' = err

\* main, lines 132-141: parse the arguments and call the pipeline.
MainCall ==
    /\ mainpc = "parse_args"
    /\ pc = "START"
    /\ mainpc' = "calling"
    /\ pc' = "CHECK_EXISTS"
    /\ UNCHANGED << inputs, model, results, vid, num_frames, out, outOpens,
                    releaseCalls, yielded, r, frame, written, printed, err, raised,
                    exitErr >>

\* The pipeline without the check of lines 102-103.
CheckInputExists_Missing ==
    /\ pc = "CHECK_EXISTS"
    /\ pc' = "CHECK_EXT"
    /\ NoRaise
    /\ UNCHANGED << inputs, mainpc, model, results, vid, num_frames, out,
                    outOpens, releaseCalls, yielded, r, frame, written,
                    printed, exitErr >>

\* lines 102-103
CheckInputExists ==
    /\ pc = "CHECK_EXISTS"
    /\ IF ~file_exists
         THEN Raise(InputNotFoundError)
         ELSE pc' = "CHECK_EXT" /\ NoRaise
    /\ UNCHANGED << inputs, mainpc, model, results, vid, num_frames, out,
                    outOpens, releaseCalls, yielded, r, frame, written,
                    printed, exitErr >>

\* The check of line 105 with the suffix 'avi' in place of '.avi'.
CheckExtension_NoDot ==
    /\ pc = "CHECK_EXT"
    /\ IF ~EndsWith(Lower(output_filename), << "a", "v", "i" >>)
         THEN Raise(UnsupportedOutputFormatError)
         ELSE pc' = "LOAD_MODEL" /\ NoRaise
    /\ UNCHANGED << inputs, mainpc, model, results, vid, num_frames, out,
                    outOpens, releaseCalls, yielded, r, frame, written,
                    printed, exitErr >>

\* lines 105-106
CheckExtension ==
    /\ pc = "CHECK_EXT"
    /\ IF ~EndsWith(Lower(output_filename), DotAvi)
         THEN Raise(UnsupportedOutputFormatError)
         ELSE pc' = "LOAD_MODEL" /\ NoRaise
    /\ UNCHANGED << inputs, mainpc, model, results, vid, num_frames, out,
                    outOpens, releaseCalls, yielded, r, frame, written,
                    printed, exitErr >>

\* line 109: model = YOLO(model_path, task='detect')
LoadModel ==
    /\ pc = "LOAD_MODEL"
    /\ IF ~model_loadable
         THEN Raise(ModelLoadError) /\ model' = model
         ELSE pc' = "MODEL_CALL" /\ NoRaise /\ model' = TRUE
    /\ UNCHANGED << inputs, mainpc, results, vid, num_frames, out, outOpens,
                    releaseCalls, yielded, r, frame, written, printed,
                    exitErr >>

\* The pipeline without the call of get_video_params of line 113.
ModelCall_SkipProbe ==
    /\ pc = "MODEL_CALL"
    /\ results' = TRUE
    /\ pc' = "OPEN_WRITER"
    /\ UNCHANGED << inputs, mainpc, model, vid, num_frames, out, outOpens,
                    releaseCalls, yielded, r, frame, written, printed, err,
                    raised, exitErr >>

\* line 110: results = model(file_path, stream=True, ...).  With stream=True
\* the call returns a generator; nothing is decoded before the first next().
ModelCall ==
    /\ pc = "MODEL_CALL"
    /\ results' = TRUE
    /\ pc' = "PROBE_OPEN"
    /\ UNCHANGED << inputs, mainpc, model, vid, num_frames, out, outOpens,
                    releaseCalls, yielded, r, frame, written, printed, err, raised,
                    exitErr >>

\* get_video_params, line 57: vid = cv2.VideoCapture(file_path)
ProbeOpen ==
    /\ pc = "PROBE_OPEN"
    /\ vid' = IF video_openable THEN "open" ELSE "none"
    /\ pc' = "PROBE_CHECK"
    /\ UNCHANGED << inputs, mainpc, model, results, num_frames, out, outOpens,
                    releaseCalls, yielded, r, frame, written, printed, err, raised,
                    exitErr >>

\* get_video_params without the isOpened() check of lines 58-59.
ProbeCheck_NoIsOpened ==
    /\ pc = "PROBE_CHECK"
    /\ pc' = "OPEN_WRITER"
    /\ NoRaise
    /\ num_frames' = IF vid = "open" THEN frame_count_prop ELSE 0
    /\ UNCHANGED << inputs, mainpc, model, results, vid, out, outOpens,
                    releaseCalls, yielded, r, frame, written, printed,
                    exitErr >>

\* get_video_params, lines 58-66, and the assignment of line 113.  The
\* function returns without a call of vid.release().
ProbeCheck ==
    /\ pc = "PROBE_CHECK"
    /\ IF vid # "open"
         THEN Raise(OpenError) /\ num_frames' = num_frames
         ELSE pc' = "OPEN_WRITER" /\ NoRaise /\ num_frames' = frame_count_prop
    /\ UNCHANGED << inputs, mainpc, model, results, vid, out, outOpens,
                    releaseCalls, yielded, r, frame, written, printed,
                    exitErr >>

\* The VideoCapture of get_video_params is unreferenced once the function has
\* returned; the interpreter finalizes it at a time of its own choosing.
CollectVid ==
    /\ vid = "open"
    /\ num_frames # -1
    /\ vid' = "released"
    /\ UNCHANGED << inputs, mainpc, pc, model, results, num_frames, out,
                    outOpens, releaseCalls, yielded, r, frame, written,
                    printed, err, raised, exitErr >>

\* line 114: out = cv2.VideoWriter(output_filename, **video_params)
OpenWriter ==
    /\ pc = "OPEN_WRITER"
    /\ out' = "open"
    /\ outOpens' = outOpens + 1
    /\ pc' = "LOOP_NEXT"
    /\ UNCHANGED << inputs, mainpc, model, results, vid, num_frames,
                    releaseCalls, yielded, r, frame, written, printed, err, raised,
                    exitErr >>

\* The loop with an off-by-one bound: it ends one result early.
LoopNext_StopsEarly ==
    /\ pc = "LOOP_NEXT"
    /\ IF Len(yielded) + 1 < nframes
         THEN \/ /\ r' = Result(Len(yielded) + 1)
                 /\ yielded' = Append(yielded, Result(Len(yielded) + 1))
                 /\ pc' = "LOOP_PLOT"
                 /\ NoRaise
              \/ /\ Raise(InferenceError)
                 /\ UNCHANGED << r, yielded >>
         ELSE /\ pc' = "RELEASE"
              /\ UNCHANGED << r, yielded, err, raised >>
    /\ UNCHANGED << inputs, mainpc, model, results, vid, num_frames, out,
                    outOpens, releaseCalls, frame, written, printed,
                    exitErr >>

\* line 115: tqdm asks the stream for the next result.  The stream yields the
\* next frame's result, or raises while decoding or inferring it, or is
\* exhausted.
LoopNext ==
    /\ pc = "LOOP_NEXT"
    /\ IF Len(yielded) < nframes
         THEN \/ /\ r' = Result(Len(yielded) + 1)
                 /\ yielded' = Append(yielded, Result(Len(yielded) + 1))
                 /\ pc' = "LOOP_PLOT"
                 /\ NoRaise
              \/ /\ Raise(InferenceError)
                 /\ UNCHANGED << r, yielded >>
         ELSE /\ pc' = "RELEASE"
              /\ UNCHANGED << r, yielded, err, raised >>
    /\ UNCHANGED << inputs, mainpc, model, results, vid, num_frames, out,
                    outOpens, releaseCalls, frame, written, printed,
                    exitErr >>

\* lines 118-121: frame = r.plot(...)
LoopPlot ==
    /\ pc = "LOOP_PLOT"
    /\ \/ /\ frame' = Plot(r)
          /\ pc' = "LOOP_WRITE"
          /\ NoRaise
       \/ /\ Raise(RenderError)
          /\ frame' = frame
    /\ UNCHANGED << inputs, mainpc, model, results, vid, num_frames, out,
                    outOpens, releaseCalls, yielded, r, written, printed,
                    exitErr >>

\* The loop body writing each frame twice.
LoopWrite_Twice ==
    /\ pc = "LOOP_WRITE"
    /\ \/ /\ written' = Append(Append(written, frame), frame)
          /\ pc' = "LOOP_NEXT"
          /\ NoRaise
       \/ /\ Raise(WriteError)
          /\ written' = written
    /\ UNCHANGED << inputs, mainpc, model, results, vid, num_frames, out,
                    outOpens, releaseCalls, yielded, r, frame, printed,
                    exitErr >>

\* line 122: out.write(frame)
LoopWrite ==
    /\ pc = "LOOP_WRITE"
    /\ \/ /\ written' = Append(written, frame)
          /\ pc' = "LOOP_NEXT"
          /\ NoRaise
       \/ /\ Raise(WriteError)
          /\ written' = written
    /\ UNCHANGED << inputs, mainpc, model, results, vid, num_frames, out,
                    outOpens, releaseCalls, yielded, r, frame, printed,
                    exitErr >>

\* The pipeline without the out.release() of line 123.
ReleaseWriter_Missing ==
    /\ pc = "RELEASE"
    /\ pc' = "PRINT"
    /\ UNCHANGED << inputs, mainpc, model, results, vid, num_frames, out,
                    outOpens, releaseCalls, yielded, r, frame, written,
                    printed, err, raised, exitErr >>

\* line 123: out.release()
ReleaseWriter ==
    /\ pc = "RELEASE"
    /\ out' = "released"
    /\ releaseCalls' = releaseCalls + 1
    /\ pc' = "PRINT"
    /\ UNCHANGED << inputs, mainpc, model, results, vid, num_frames, outOpens,
                    yielded, r, frame, written, printed, err, raised, exitErr >>

\* line 125: print(f"Video '{output_filename}' created successfully.")
PrintSuccess ==
    /\ pc = "PRINT"
    /\ printed' = Append(printed, output_filename)
    /\ pc' = "DONE"
    /\ UNCHANGED << inputs, mainpc, model, results, vid, num_frames, out,
                    outOpens, releaseCalls, yielded, r, frame, written, err, raised,
                    exitErr >>

\* main, lines 141-145: the call returns, or its exception passes through
\* main, which has no handler.
MainExit ==
    /\ mainpc = "calling"
    /\ pc \in { "DONE", "FAILED" }
    /\ mainpc' = "exited"
    /\ exitErr' = err
    /\ UNCHANGED << inputs, pc, model, results, vid, num_frames, out,
                    outOpens, releaseCalls, yielded, r, frame, written,
                    printed, err, raised >>

Next ==
    \/ MainCall
    \/ CheckInputExists
    \/ CheckExtension
    \/ LoadModel
    \/ ModelCall
    \/ ProbeOpen
    \/ ProbeCheck
    \/ CollectVid
    \/ OpenWriter
    \/ LoopNext
    \/ LoopPlot
    \/ LoopWrite
    \/ ReleaseWriter
    \/ PrintSuccess
    \/ MainExit

Spec == Init /\ [][Next]_vars

\* ------------------------------------------------------------------------
\* Properties.

\* The run has ended: the call returned or raised.
Ended == pc \in { "DONE", "FAILED" }

\* The output names of OutputNames that do not name an .avi file.
UnsupportedNames == { Str_o_mp4, Str_oavi, Str_o_avi_mp4, Str_avi }

\* The positions of the pipeline up to the end of argument validation.
ValidationPcs == { "START", "CHECK_EXISTS", "CHECK_EXT", "FAILED" }

\* No model load, no stream, no probe, no decoded frame, no output stream.
NoSideEffects ==
    /\ ~model
    /\ ~results
    /\ vid = "none"
    /\ num_frames = -1
    /\ yielded = << >>
    /\ out = "unopened"
    /\ outOpens = 0
    /\ written = << >>

\* C1: in every run that has opened the output stream, the stream has been
\* released exactly once when the run ends, on normal completion and on an
\* error raised in the frame loop.
C1_ReleasedOnEveryExit ==
    (Ended /\ outOpens > 0) => (out = "released" /\ releaseCalls = 1)

\* C2, as stated: every run with an unsupported output extension fails with
\* UnsupportedOutputFormatError, with no model load, decode, probe or output
\* stream.
C2_Original ==
    output_filename \in UnsupportedNames =>
        /\ pc \in ValidationPcs
        /\ NoSideEffects
        /\ (pc = "FAILED" => err = UnsupportedOutputFormatError)

\* C2, amended: every run with an unsupported output extension fails during
\* validation with no model load, decode, probe or output stream; the error
\* is UnsupportedOutputFormatError when the input path exists and
\* InputNotFoundError when it does not.
C2_Amended ==
    output_filename \in UnsupportedNames =>
        /\ pc \in ValidationPcs
        /\ NoSideEffects
        /\ (pc = "FAILED" =>
                err = IF file_exists THEN UnsupportedOutputFormatError
                                     ELSE InputNotFoundError)
        /\ (mainpc = "exited" => exitErr = err /\ pc = "FAILED")

C2_Witness ==
    /\ output_filename = Str_o_mp4
    /\ file_exists
    /\ pc = "FAILED"
    /\ err = UnsupportedOutputFormatError
    /\ mainpc = "exited"

\* C3: every run with a missing input path fails with InputNotFoundError and
\* never reaches the model load, the probe or the opening of the output.
C3_MissingInputFailsFirst ==
    ~file_exists =>
        /\ pc \in { "START", "CHECK_EXISTS", "FAILED" }
        /\ NoSideEffects
        /\ (pc = "FAILED" => err = InputNotFoundError)
        /\ (mainpc = "exited" => exitErr = InputNotFoundError)

C3_Witness ==
    /\ ~file_exists
    /\ model_loadable
    /\ pc = "FAILED"
    /\ err = InputNotFoundError
    /\ mainpc = "exited"

\* C4: the frames written are, in order, the renderings of a prefix of the
\* results yielded, which are the source frames in order; a yielded result
\* is written before the next one is yielded; at DONE every yielded result
\* has been written.
C4_WrittenIsPrefixOfYielded ==
    /\ Len(written) <= Len(yielded)
    /\ Len(yielded) <= Len(written) + 1
    /\ \A k \in 1..Len(yielded) : yielded[k] = Result(k)
    /\ \A k \in 1..Len(written) : written[k] = Plot(yielded[k])
    /\ (pc = "DONE" => Len(written) = Len(yielded))

C4_Witness ==
    /\ pc = "DONE"
    /\ Len(written) = 2
    /\ written[1].img = 1
    /\ written[2].img = 2

\* The stage of the orchestrator that a position of the pipeline belongs to.
Stage(p) ==
    CASE p = "START" -> "START"
      [] p \in { "CHECK_EXISTS", "CHECK_EXT" } -> "VALIDATE_ARGS"
      [] p \in { "LOAD_MODEL", "MODEL_CALL" } -> "LOAD_MODEL"
      [] p \in { "PROBE_OPEN", "PROBE_CHECK" } -> "PROBE"
      [] p \in { "OPEN_WRITER", "LOOP_NEXT", "LOOP_PLOT", "LOOP_WRITE" } ->
             "STREAM_DETECT_RENDER_WRITE"
      [] p \in { "RELEASE", "PRINT" } -> "FINALIZE"
      [] p = "DONE" -> "DONE"
      [] OTHER -> "FAILED"

\* The stages that may follow a stage: the model is loaded before the probe.
StageSuccessors(st) ==
    CASE st = "START" -> { "VALIDATE_ARGS" }
      [] st = "VALIDATE_ARGS" -> { "LOAD_MODEL", "FAILED" }
      [] st = "LOAD_MODEL" -> { "PROBE", "FAILED" }
      [] st = "PROBE" -> { "STREAM_DETECT_RENDER_WRITE", "FAILED" }
      [] st = "STREAM_DETECT_RENDER_WRITE" -> { "FINALIZE", "FAILED" }
      [] st = "FINALIZE" -> { "DONE", "FAILED" }
      [] OTHER -> { }

\* C5, as stated: the input is probed before the model is loaded, so a run
\* whose probe fails ends in FAILED without the model loaded.
C5_Original ==
    /\ (model => (vid # "none" \/ err = OpenError))
    /\ ((pc = "FAILED" /\ err = OpenError) => ~model)

\* C5, amended: the stages occur in the order VALIDATE_ARGS, LOAD_MODEL,
\* PROBE, STREAM_DETECT_RENDER_WRITE, FINALIZE, DONE, each able to end in
\* FAILED: the model is loaded before the input is probed, and a run whose
\* probe fails ends in FAILED with the model loaded.
C5_Amended ==
    /\ [][ Stage(pc') = Stage(pc) \/ Stage(pc') \in StageSuccessors(Stage(pc)) ]_vars
    /\ [](Stage(pc) = "PROBE" => model)
    /\ []((pc = "FAILED" /\ err = OpenError) => (model /\ out = "unopened"))

C5_Witness ==
    /\ pc = "FAILED"
    /\ err = OpenError
    /\ model
    /\ ~video_openable

C7_ProbeHandleReleased ==
    (num_frames # -1 \/ err = OpenError) => vid # "open"

\* C8: an error raised by any statement leaves the pipeline and main
\* unchanged, the run is FAILED and not DONE, and after the failure nothing
\* more is yielded, written or printed.
C8_ErrorsPropagate ==
    /\ [](raised # NoError => (pc = "FAILED" /\ err = raised))
    /\ [](pc = "DONE" => (raised = NoError /\ err = NoError))
    /\ [](mainpc = "exited" => exitErr = raised)
    /\ [][ pc = "FAILED" =>
             /\ pc' = "FAILED"
             /\ UNCHANGED << written, yielded, printed, err, raised, out >> ]_vars

C8_Witness ==
    /\ pc = "FAILED"
    /\ raised = RenderError
    /\ Len(yielded) = 2
    /\ Len(written) = 1
    /\ mainpc = "exited"
    /\ exitErr = RenderError

\* C9: the success message naming the output path is printed at most once,
\* only in a run that completes normally, after every frame has been written
\* and the output stream released; a completed run has printed it and a
\* failed run has not.
C9_SuccessMessage ==
    /\ Len(printed) <= 1
    /\ (printed # << >> =>
            /\ printed = << output_filename >>
            /\ pc = "DONE"
            /\ raised = NoError
            /\ out = "released"
            /\ Len(yielded) = nframes
            /\ Len(written) = nframes)
    /\ (pc = "DONE" => Len(printed) = 1)
    /\ (pc = "FAILED" => printed = << >>)

C9_Witness ==
    /\ pc = "DONE"
    /\ printed = << output_filename >>
    /\ Len(written) = 2
    /\ out = "released"

\* C10: the output stream is opened at most once, and only when the input
\* exists, the extension is supported, the model is loaded and the probe has
\* returned; a run that fails in one of these four steps has no output
\* stream.
C10_OutputOpenedLast ==
    /\ outOpens <= 1
    /\ (out = "unopened" <=> outOpens = 0)
    /\ (outOpens > 0 =>
            /\ file_exists
            /\ output_filename \notin UnsupportedNames
            /\ model
            /\ vid # "none"
            /\ video_openable
            /\ num_frames # -1)
    /\ (raised \in { InputNotFoundError, UnsupportedOutputFormatError,
                     ModelLoadError, OpenError } =>
            (out = "unopened" /\ outOpens = 0))

C10_Witness ==
    /\ pc = "LOOP_NEXT"
    /\ out = "open"
    /\ outOpens = 1
    /\ yielded = << >>

=============================================================================
